---------------------------- MODULE Spec2Model ----------------------------
(***************************************************************************)
(* Block-checksum pipeline of simonenkos/signature.                        *)
(*                                                                         *)
(* Two revisions of signature.cpp carry the CRC pipeline:                  *)
(*   "signature"  src/source/signature.cpp                                 *)
(*   "part_000"   src/unnamed/part_000                                     *)
(* They share block_size, crc_saver, the task body and the main loop and   *)
(* differ in the order of the help check and notify, in the handling of    *)
(* exceptions of the read step, and in the release of the buffer.  The     *)
(* variable `variant` says which revision a behaviour runs.                *)
(* src/unnamed/part_001 is an earlier revision that copies the blocks to   *)
(* the output from the tasks and computes no checksum; it is the           *)
(* specification Spec001 of its own.  thool::thread_pool is outside the    *)
(* repository: add_task queues a task for one of its worker threads, in no *)
(* promised order, and stop() returns when every queued task has run.      *)
(***************************************************************************)
EXTENDS Integers, Sequences, FiniteSets, TLC

(***************************************************************************)
(* Bounds of the model.                                                    *)
(***************************************************************************)
\* longest input file, in bytes
MaxInput == 4
\* block sizes are 2..MaxBlockSize bytes (the program's are >= 1024; the
\* pipeline uses the block size only to cut the input, so it is scaled)
MaxBlockSize == 3
\* worker threads of the pool are 1..MaxPool
MaxPool == 2
\* high-water marks tried besides the program's own are 1..MaxMark
MaxMark == 2
\* most failures of the environment (std::bad_alloc, read error, write
\* error) met in one run
MaxFaults == 1

\* the numbers given to block_size::set lie within MaxOff of 0, of 2^64 and of
\* the powers of two where a suffix starts to reach 1024 or to pass 2^64
MaxOff == 1
\* most calls of set on one block_size object
MaxCalls == 2

\* most blocks the producer loop dispatches: one more than the full blocks of
\* the longest input under the smallest block size.  The bound bites only in
\* a loop that does not end by itself (see CapNotReached).
MaxBlocks == (MaxInput \div 2) + 1

(***************************************************************************)
(* Program constants.                                                      *)
(***************************************************************************)
BLOCK_CRC_MAP_PROCESSING_SIZE == 100

Variants == {"signature", "part_000"}
\* std::vector<char>::max_size(), scaled like the block sizes: the one block
\* size above it stands for the --block values no vector can hold
VectorMaxSize == MaxBlockSize
BlockSizes == 2..(MaxBlockSize + 1)
PoolSizes == 1..MaxPool
HighWaterMarks == (1..MaxMark) \cup {BLOCK_CRC_MAP_PROCESSING_SIZE}

\* input files: the text "1234..." and a run of NUL bytes, of every length
Digits(n) == [i \in 1..n |-> 48 + i]
Nuls(n) == [i \in 1..n |-> 0]
Inputs == {Digits(n) : n \in 0..MaxInput} \cup {Nuls(n) : n \in 0..MaxInput}

(***************************************************************************)
(* boost::crc_32_type = crc_optimal<32, 0x04C11DB7, 0xFFFFFFFF,            *)
(* 0xFFFFFFFF, true, true>, in its reflected, table-driven form.  A 32-bit *)
(* value is the tuple of its four bytes, the most significant first.       *)
(***************************************************************************)
RECURSIVE BitXor(_, _)
BitXor(a, b) ==
    IF a = 0 THEN b
    ELSE IF b = 0 THEN a
    ELSE ((a + b) % 2) + 2 * BitXor(a \div 2, b \div 2)

Xor8 == [a \in 0..255 |-> [b \in 0..255 |-> BitXor(a, b)]]

Register == [1..4 -> 0..255]

\* the reflected polynomial 0xEDB88320, as <<high 16 bits, low 16 bits>>
CrcPoly == <<60856, 33568>>
\* initial remainder and final xor value 0xFFFFFFFF
CrcOnes == <<255, 255, 255, 255>>

\* one bit of a register <<high 16 bits, low 16 bits>>: shift right, xor the
\* polynomial in when a 1 falls out
CrcShift(r) ==
    IF r[2] % 2 = 1
    THEN <<BitXor(r[1] \div 2, CrcPoly[1]),
           BitXor((r[2] \div 2) + 32768 * (r[1] % 2), CrcPoly[2])>>
    ELSE <<r[1] \div 2, (r[2] \div 2) + 32768 * (r[1] % 2)>>

\* the four bytes of <<high 16 bits, low 16 bits>>
Bytes4(r) == <<r[1] \div 256, r[1] % 256, r[2] \div 256, r[2] % 256>>

\* the table of the remainders of the 256 byte values, eight bits each
CrcTable ==
    [b \in 0..255 |->
        Bytes4(CrcShift(CrcShift(CrcShift(CrcShift(
               CrcShift(CrcShift(CrcShift(CrcShift(<<0, b>>)))))))))]

\* one byte: table[(r ^ byte) & 0xFF] ^ (r >> 8)
CrcByte ==
    [r \in Register, byte \in 0..255 |->
        <<CrcTable[Xor8[r[4]][byte]][1],
          Xor8[CrcTable[Xor8[r[4]][byte]][2]][r[1]],
          Xor8[CrcTable[Xor8[r[4]][byte]][3]][r[2]],
          Xor8[CrcTable[Xor8[r[4]][byte]][4]][r[3]]>>]

RECURSIVE CrcRun(_, _, _)
CrcRun(r, bytes, i) ==
    IF i > Len(bytes) THEN r ELSE CrcRun(CrcByte[r, bytes[i]], bytes, i + 1)

\* the final xor
CrcFinal == [r \in Register |-> [i \in 1..4 |-> Xor8[r[i]][CrcOnes[i]]]]

\* crc_hash.process_bytes(data, n); crc_hash.checksum()
Crc32(bytes) == CrcFinal[CrcRun(CrcOnes, bytes, 1)]

(***************************************************************************)
(* uint64_t.  A value is the sequence of its bytes, the least significant  *)
(* first and the last one not 0 (zero is the empty sequence), so that the  *)
(* quotients and products of block_size keep all their 64 bits.            *)
(***************************************************************************)
\* sizeof(uint64_t)
Uint64Bytes == 8

RECURSIVE NatBytes(_)
\* the bytes of a number small enough to be written as a numeral
NatBytes(n) == IF n = 0 THEN <<>> ELSE <<n % 256>> \o NatBytes(n \div 256)

RECURSIVE Norm(_)
Norm(a) == IF a = <<>> \/ a[Len(a)] # 0 THEN a ELSE Norm(SubSeq(a, 1, Len(a) - 1))

Limb(a, i) == IF i <= Len(a) THEN a[i] ELSE 0

RECURSIVE LessFrom(_, _, _)
LessFrom(a, b, i) ==
    IF i = 0 THEN FALSE
    ELSE IF a[i] # b[i] THEN a[i] < b[i]
    ELSE LessFrom(a, b, i - 1)

\* a < b
BigLess(a, b) == IF Len(a) # Len(b) THEN Len(a) < Len(b) ELSE LessFrom(a, b, Len(a))

RECURSIVE AddFrom(_, _, _, _)
AddFrom(a, b, i, carry) ==
    IF i > Len(a) /\ i > Len(b)
    THEN IF carry = 0 THEN <<>> ELSE <<carry>>
    ELSE LET s == Limb(a, i) + Limb(b, i) + carry
         IN  <<s % 256>> \o AddFrom(a, b, i + 1, s \div 256)

\* a + b, in full
BigAdd(a, b) == AddFrom(a, b, 1, 0)

RECURSIVE SubFrom(_, _, _, _)
SubFrom(a, b, i, borrow) ==
    IF i > Len(a) THEN <<>>
    ELSE LET d == a[i] - Limb(b, i) - borrow
         IN  <<(d + 256) % 256>> \o SubFrom(a, b, i + 1, IF d < 0 THEN 1 ELSE 0)

\* a - b, for a >= b
BigSub(a, b) == Norm(SubFrom(a, b, 1, 0))

RECURSIVE MulSmallFrom(_, _, _, _)
MulSmallFrom(a, d, i, carry) ==
    IF i > Len(a)
    THEN IF carry = 0 THEN <<>> ELSE <<carry>>
    ELSE LET p == a[i] * d + carry
         IN  <<p % 256>> \o MulSmallFrom(a, d, i + 1, p \div 256)

\* a * d for a byte d
MulSmall(a, d) == Norm(MulSmallFrom(a, d, 1, 0))

\* 256 * a
ShiftByte(a) == IF a = <<>> THEN <<>> ELSE <<0>> \o a

RECURSIVE MulFrom(_, _, _)
MulFrom(a, b, i) ==
    IF i > Len(a) THEN <<>>
    ELSE BigAdd(MulSmall(b, a[i]), ShiftByte(MulFrom(a, b, i + 1)))

\* a * b, in full
BigMul(a, b) == MulFrom(a, b, 1)

\* the largest byte q with q * b <= r, for r < 256 * b: its bits from the top
QuotientDigit(r, b) ==
    LET Fits(d) == ~BigLess(r, MulSmall(b, d))
        q7 == IF Fits(128) THEN 128 ELSE 0
        q6 == IF Fits(q7 + 64) THEN q7 + 64 ELSE q7
        q5 == IF Fits(q6 + 32) THEN q6 + 32 ELSE q6
        q4 == IF Fits(q5 + 16) THEN q5 + 16 ELSE q5
        q3 == IF Fits(q4 + 8) THEN q4 + 8 ELSE q4
        q2 == IF Fits(q3 + 4) THEN q3 + 4 ELSE q3
        q1 == IF Fits(q2 + 2) THEN q2 + 2 ELSE q2
    IN  IF Fits(q1 + 1) THEN q1 + 1 ELSE q1

RECURSIVE DivFrom(_, _, _, _)
\* long division, byte by byte: the quotient's bytes 1..i, r the remainder
\* left by the bytes above i
DivFrom(a, b, i, r) ==
    IF i = 0 THEN <<>>
    ELSE LET r2 == Norm(<<a[i]>> \o r)
             q == QuotientDigit(r2, b)
         IN  IF q = 0
             THEN DivFrom(a, b, i - 1, r2) \o <<0>>
             ELSE DivFrom(a, b, i - 1, BigSub(r2, MulSmall(b, q))) \o <<q>>

\* a / b of two uint64_t, b not zero
Uint64Div(a, b) == Norm(DivFrom(a, b, Len(a), <<>>))

\* a * b of two uint64_t: the low 64 bits of the product
Uint64Mul(a, b) ==
    LET p == BigMul(a, b)
    IN  Norm(SubSeq(p, 1, IF Len(p) < Uint64Bytes THEN Len(p) ELSE Uint64Bytes))

\* std::numeric_limits<uint64_t>::max()
Uint64Max == [i \in 1..Uint64Bytes |-> 255]

\* 2 ^ k
Pow2(k) == [i \in 1..((k \div 8) + 1) |-> IF i = (k \div 8) + 1 THEN 2 ^ (k % 8) ELSE 0]

(***************************************************************************)
(* class block_size.                                                       *)
(***************************************************************************)
BLOCK_SIZE_KILOBYTE == 1024
BLOCK_SIZE_MEGABYTE == 1024 * BLOCK_SIZE_KILOBYTE
BLOCK_SIZE_GIGABYTE == 1024 * BLOCK_SIZE_MEGABYTE

\* the char values of the suffixes: 0 when there is none, 'K', 'M', 'G'
NoSuffix == 0
CharK == 75
CharM == 77
CharG == 71

\* block_size(): number_(0), suffix_(1)
block_size_default == [number_ |-> NatBytes(0), suffix_ |-> NatBytes(1)]

\* the switch of set: the multiplier tmp, or 0 for "default: return false"
SuffixMultiplier(suffix) ==
    IF suffix = NoSuffix THEN 1
    ELSE IF suffix = CharK THEN BLOCK_SIZE_KILOBYTE
    ELSE IF suffix = CharM THEN BLOCK_SIZE_MEGABYTE
    ELSE IF suffix = CharG THEN BLOCK_SIZE_GIGABYTE
    ELSE 0

\* bool block_size::set(uint64_t number, char suffix): the outcomes the call
\* can have, each [result, object after the call].  max / number with
\* number == 0 is a division by zero, whose behaviour is undefined: the
\* division traps ("fault"), or it yields some value and set goes on, to
\* number * tmp == 0 < BLOCK_SIZE_KILOBYTE at the latest (false).
block_size_set(obj, number, suffix) ==
    LET tmp == NatBytes(SuffixMultiplier(suffix))
    IN  IF tmp = <<>>
        THEN {[result |-> "false", obj |-> obj]}
        ELSE IF BigLess(Uint64Div(Uint64Max, tmp), number)
        THEN {[result |-> "false", obj |-> obj]}
        ELSE IF number = <<>>
        THEN {[result |-> "fault", obj |-> obj], [result |-> "false", obj |-> obj]}
        ELSE IF BigLess(Uint64Div(Uint64Max, number), tmp)
        THEN {[result |-> "false", obj |-> obj]}
        ELSE IF BigLess(Uint64Mul(number, tmp), NatBytes(BLOCK_SIZE_KILOBYTE))
        THEN {[result |-> "false", obj |-> obj]}
        ELSE {[result |-> "true", obj |-> [number_ |-> number, suffix_ |-> tmp]]}

\* uint64_t block_size::get() const
block_size_get(obj) == Uint64Mul(obj.number_, obj.suffix_)

\* arguments of set: numbers around 0, 2^10 (the least size), 2^34, 2^44,
\* 2^54 and 2^64 (where number * G, * M, * K and * 1 leave 64 bits); the
\* suffixes of the switch, '|' (which the option's pattern lets through) and 'T'
SetExponents == {10, 34, 44, 54}
SetNumbers ==
    {NatBytes(d) : d \in 0..MaxOff}
    \cup {BigAdd(Pow2(k), NatBytes(d)) : k \in SetExponents, d \in 0..MaxOff}
    \cup {BigSub(Pow2(k), NatBytes(d)) : k \in SetExponents, d \in 1..MaxOff}
    \cup {BigSub(Uint64Max, NatBytes(d)) : d \in 0..(MaxOff - 1)}
SetSuffixes == {NoSuffix, CharK, CharM, CharG, 124, 84}

(***************************************************************************)
(* State.                                                                  *)
(***************************************************************************)
VARIABLES
    variant,                  \* revision of signature.cpp that runs
    threshold,                \* high-water mark compared with the map's size
    args,                     \* argv: [help, input, output, bad]
    pc,                       \* position of main
    exit_code,                \* value returned by main, -1 while it runs
    console,                  \* messages printed to std::cout / std::cerr
    block_size_value,         \* block_size_value.get()
    input_file_name,
    output_file_name,
    input_open,               \* input_file.is_open()
    output_open,              \* output file created / truncated
    input,                    \* bytes of the input file
    pos,                      \* read position of input_file
    input_eof,                \* input_file.eof()
    input_fail,               \* input_file in error state without eofbit
    block_counter,
    last_processed_block_id,
    block_crc_map,
    block_crc_map_mutex,      \* "free", or held by "main" or by the "task" that is locked
    output_file_stream,       \* checksums the output file holds, in order
    output_bad,               \* output_file_stream in error state
    written,                  \* history: block id of each record written
    pool_size,                \* worker threads of thool::thread_pool
    tasks,                    \* tasks given to tp.add_task, by block id
    stopped,                  \* tp.stop() has returned
    ret,                      \* where crc_saver returns to
    faults,                   \* failures of the environment so far
    broke,                    \* history: the producer loop was left by break
    dispatched,               \* history: the block_counter each task captured
    inserts,                  \* history: calls of block_crc_map.insert that returned, by key
    flush_from,               \* history: the cursor when crc_saver was called
    flushed,                  \* history: keys this call of crc_saver handed to write
    output_writers,           \* history: who wrote to output_file_stream
    last_fault,               \* history: the last failure of the environment
    output_file_mutex,        \* part_001: "free" or held by a "task"
    validate_bs,              \* validate's block_size bs: [number_, suffix_]
    set_call,                 \* history: the last call of set and bs before it
    set_result                \* what that call returned, or "fault", or "none"

vars == <<variant, threshold, args, pc, exit_code, console, block_size_value,
          input_file_name, output_file_name, input_open, output_open, input,
          pos, input_eof, input_fail, block_counter, last_processed_block_id,
          block_crc_map, block_crc_map_mutex, output_file_stream, output_bad,
          written, pool_size, tasks, stopped, ret, faults, broke,
          dispatched, inserts, flush_from, flushed, output_writers, last_fault,
          output_file_mutex, validate_bs, set_call, set_result>>

setVars == <<validate_bs, set_call, set_result>>
cliVars == <<variant, threshold, args>>
flushVars == <<flush_from, flushed>>
doneVars == <<dispatched, inserts, flushVars, output_writers>>
histVars == <<doneVars, last_fault>>
\* what the pipeline of the two CRC revisions does not have
restVars == <<setVars, output_file_mutex>>
nameVars == <<block_size_value, input_file_name, output_file_name>>
inVars == <<input_open, input, pos, input_eof, input_fail>>
outVars == <<output_open, output_file_stream, output_bad, written>>
mapVars == <<block_crc_map, block_crc_map_mutex>>
poolVars == <<pool_size, tasks, stopped>>

Args == [help : BOOLEAN, input : {"", "a"}, output : {"", "a", "b"}, bad : BOOLEAN]

\* argc == 1: no argument at all
ArgcIsOne(a) == ~a.help /\ a.input = "" /\ a.output = "" /\ ~a.bad

\* no call of set yet
NoCall ==
    [calls |-> 0, number |-> <<>>, suffix |-> NoSuffix, before |-> block_size_default]

\* the state before main's first statement
Start ==
    /\ pc = "parse"
    /\ exit_code = -1
    /\ console = {}
    /\ block_size_value = 0
    /\ input_file_name = ""
    /\ output_file_name = ""
    /\ input_open = FALSE
    /\ output_open = FALSE
    /\ input = <<>>
    /\ pos = 0
    /\ input_eof = FALSE
    /\ input_fail = FALSE
    /\ block_counter = 0
    /\ last_processed_block_id = 0
    /\ block_crc_map = <<>>
    /\ block_crc_map_mutex = "free"
    /\ output_file_stream = <<>>
    /\ output_bad = FALSE
    /\ written = <<>>
    /\ pool_size = 0
    /\ tasks = <<>>
    /\ stopped = FALSE
    /\ ret = "none"
    /\ faults = 0
    /\ broke = FALSE
    /\ dispatched = <<>>
    /\ inserts = <<>>
    /\ flush_from = 0
    /\ flushed = <<>>
    /\ output_writers = {}
    /\ last_fault = "none"
    /\ output_file_mutex = "free"
    /\ validate_bs = block_size_default
    /\ set_call = NoCall
    /\ set_result = "none"

Init ==
    /\ variant \in Variants
    /\ threshold \in HighWaterMarks
    /\ args \in Args
    /\ Start

\* return <code> from main
Return(code, msgs) ==
    /\ pc' = "exit"
    /\ exit_code' = code
    /\ console' = console \cup msgs

(***************************************************************************)
(* main: command line.                                                     *)
(***************************************************************************)
\* bpo::store throws on an unknown option or a --block value that validate
\* rejects; bpo::notify throws when a required option is missing.
StoreThrows(a) == a.bad
NotifyThrows(a) == a.input = "" \/ a.output = ""
HelpAsked(a) == a.help \/ ArgcIsOne(a)

\* What the try block and the help check make of argv: "error" (exception
\* caught, EXIT_FAILURE), "help" (usage, EXIT_SUCCESS) or "run".
\* signature.cpp stores and notifies, then checks help; part_000 checks help
\* between store and notify.
ParseOutcome(v, a) ==
    IF v = "signature"
    THEN IF StoreThrows(a) \/ NotifyThrows(a) THEN "error"
         ELSE IF HelpAsked(a) THEN "help" ELSE "run"
    ELSE IF StoreThrows(a) THEN "error"
         ELSE IF HelpAsked(a) THEN "help"
         ELSE IF NotifyThrows(a) THEN "error" ELSE "run"

ParseError ==
    /\ pc = "parse"
    /\ ParseOutcome(variant, args) = "error"
    /\ Return(1, IF variant = "signature" THEN {"error"} ELSE {"error", "usage"})
    /\ UNCHANGED <<cliVars, restVars, histVars, nameVars, inVars, outVars, mapVars, poolVars,
                   block_counter, last_processed_block_id, ret, faults, broke>>

ParseHelp ==
    /\ pc = "parse"
    /\ ParseOutcome(variant, args) = "help"
    /\ Return(0, {"usage"})
    /\ UNCHANGED <<cliVars, restVars, histVars, nameVars, inVars, outVars, mapVars, poolVars,
                   block_counter, last_processed_block_id, ret, faults, broke>>

\* notify stores the option values; --block is absent (default) or valid
ParseRun ==
    /\ pc = "parse"
    /\ ParseOutcome(variant, args) = "run"
    /\ \E bs \in BlockSizes : block_size_value' = bs
    /\ input_file_name' = args.input
    /\ output_file_name' = args.output
    /\ pc' = "same_check"
    /\ UNCHANGED <<cliVars, restVars, histVars, exit_code, console, inVars, outVars, mapVars, poolVars,
                   block_counter, last_processed_block_id, ret, faults, broke>>

\* mutant: the two names are never taken for equal
SameFilesNever(in, out) == in # in

\* input_file_name == output_file_name
SameFiles(in, out) == in = out

SameFileCheck ==
    /\ pc = "same_check"
    /\ IF SameFiles(input_file_name, output_file_name)
       THEN Return(1, {"same_files"})
       ELSE pc' = "open_input" /\ UNCHANGED <<exit_code, console>>
    /\ UNCHANGED <<cliVars, restVars, histVars, nameVars, inVars, outVars, mapVars, poolVars,
                   block_counter, last_processed_block_id, ret, faults, broke>>

\* std::ifstream input_file { input_file_name, binary }; the file's content
\* is whatever the file system holds
OpenInput ==
    /\ pc = "open_input"
    /\ \E ok \in BOOLEAN :
          IF ok
          THEN /\ input_open' = TRUE
               /\ \E content \in Inputs : input' = content
               /\ pc' = "open_output"
               /\ UNCHANGED <<exit_code, console>>
          ELSE /\ Return(1, {"cant_open_input"})
               /\ UNCHANGED <<input_open, input>>
    /\ UNCHANGED <<cliVars, restVars, histVars, nameVars, pos, input_eof, input_fail, outVars, mapVars,
                   poolVars, block_counter, last_processed_block_id, ret,
                   faults, broke>>

\* std::ofstream output_file_stream { output_file_name, binary | trunc };
\* then the counters, the map, the mutex and thread_pool::instance()
OpenOutput ==
    /\ pc = "open_output"
    /\ \E ok \in BOOLEAN :
          IF ok
          THEN /\ output_open' = TRUE
               /\ \E n \in PoolSizes : pool_size' = n
               /\ pc' = "loop"
               /\ UNCHANGED <<exit_code, console>>
          ELSE /\ Return(1, {"cant_open_output"})
               /\ UNCHANGED <<output_open, pool_size>>
    /\ UNCHANGED <<cliVars, restVars, histVars, nameVars, inVars, output_file_stream, output_bad, written,
                   mapVars, tasks, stopped, block_counter, last_processed_block_id,
                   ret, faults, broke>>

(***************************************************************************)
(* main: the producer loop, while (!input_file.eof()).                     *)
(***************************************************************************)
Min(a, b) == IF a < b THEN a ELSE b

Zeros(n) == [i \in 1..n |-> 0]

\* input_file.read(buffer, bs); input_file.gcount().  A stream already in
\* error state, or an I/O error met by this read, extracts nothing and leaves
\* the stream failed without eofbit; otherwise the read takes what is left,
\* up to bs bytes, and sets eofbit when it meets the end before bs bytes.
ReadResult(content, p, bs, failed, io_error) ==
    IF failed \/ io_error
    THEN [data |-> <<>>, count |-> 0, pos |-> p, eof |-> FALSE, fail |-> TRUE]
    ELSE LET n == Min(bs, Len(content) - p)
         IN  [data |-> SubSeq(content, p + 1, p + n), count |-> n,
              pos |-> p + n, eof |-> n < bs, fail |-> FALSE]

\* std::make_shared<std::vector<char>>(bs, 0) after the read filled its head
Buffer(data, bs) == data \o Zeros(bs - Len(data))

\* the lambda handed to tp.add_task: its captures
NewTask(buffer, count) ==
    [st |-> "queued", buffer |-> buffer, readed_size |-> count, crc_value |-> <<0, 0, 0, 0>>]

AddTask(ts, id, t) == [k \in DOMAIN ts \cup {id} |-> IF k = id THEN t ELSE ts[k]]

\* One pass of the loop body without exception: allocate, read, gcount,
\* add_task, block_counter++.
ReadBlock ==
    /\ pc = "loop"
    /\ ~input_eof
    /\ block_counter < MaxBlocks
    /\ block_size_value <= VectorMaxSize
    /\ \E io_error \in {FALSE} \cup {e \in {TRUE} : faults < MaxFaults /\ ~input_fail} :
          LET r == ReadResult(input, pos, block_size_value, input_fail, io_error)
          IN  /\ faults' = IF io_error THEN faults + 1 ELSE faults
              /\ last_fault' = IF io_error THEN "read" ELSE last_fault
              /\ pos' = r.pos
              /\ input_eof' = r.eof
              /\ input_fail' = r.fail
              /\ tasks' = AddTask(tasks, block_counter,
                                  NewTask(Buffer(r.data, block_size_value), r.count))
    /\ dispatched' = Append(dispatched, block_counter)
    /\ block_counter' = block_counter + 1
    /\ pc' = "lock"
    /\ UNCHANGED <<inserts, flushVars, output_writers>>
    /\ UNCHANGED <<cliVars, restVars, nameVars, exit_code, console, input_open, input, outVars,
                   mapVars, pool_size, stopped, last_processed_block_id, ret, broke>>

\* make_shared throws std::bad_alloc: signature.cpp prints and breaks,
\* part_000 sleeps 10 ms and continues.
AllocFail ==
    /\ pc = "loop"
    /\ ~input_eof
    /\ block_size_value <= VectorMaxSize
    /\ faults < MaxFaults
    /\ faults' = faults + 1
    /\ last_fault' = "alloc"
    /\ IF variant = "signature"
       THEN pc' = "drain" /\ broke' = TRUE /\ console' = console \cup {"error"}
       ELSE UNCHANGED <<pc, broke, console>>
    /\ UNCHANGED <<cliVars, restVars, doneVars, nameVars, exit_code, inVars, outVars, mapVars, poolVars,
                   block_counter, last_processed_block_id, ret>>

\* make_shared throws std::length_error (a std::exception that is not
\* bad_alloc): signature.cpp prints and breaks, part_000 stops the pool and
\* returns EXIT_FAILURE.
LengthError ==
    /\ pc = "loop"
    /\ ~input_eof
    /\ block_size_value > VectorMaxSize
    /\ console' = console \cup {"error"}
    /\ IF variant = "signature"
       THEN pc' = "drain" /\ broke' = TRUE
       ELSE pc' = "fatal" /\ UNCHANGED broke
    /\ UNCHANGED <<cliVars, restVars, histVars, nameVars, exit_code, inVars, outVars, mapVars, poolVars,
                   block_counter, last_processed_block_id, ret, faults>>

\* mutant: at the end of the input main returns at once, without the drain
\* loop and without tp.stop()
LoopExitReturns ==
    /\ pc = "loop"
    /\ input_eof
    /\ Return(0, {"done"})
    /\ UNCHANGED <<cliVars, restVars, histVars, nameVars, inVars, outVars, mapVars,
                   poolVars, block_counter, last_processed_block_id, ret,
                   faults, broke>>

\* input_file.eof() ends the loop
LoopExit ==
    /\ pc = "loop"
    /\ input_eof
    /\ pc' = "drain"
    /\ UNCHANGED <<cliVars, restVars, histVars, nameVars, exit_code, console, inVars, outVars, mapVars,
                   poolVars, block_counter, last_processed_block_id, ret,
                   faults, broke>>

\* std::lock_guard<std::mutex> lock(block_crc_map_mutex), in the loop body
\* and in the drain loop (after its sleep)
Lock ==
    /\ pc \in {"lock", "drain_lock"}
    /\ block_crc_map_mutex = "free"
    /\ block_crc_map_mutex' = "main"
    /\ IF pc = "lock"
       THEN pc' = "check" /\ UNCHANGED <<ret, flushVars>>
       ELSE pc' = "saver" /\ ret' = "drain"
            /\ flush_from' = last_processed_block_id /\ flushed' = <<>>
    /\ UNCHANGED <<dispatched, inserts, output_writers, last_fault>>
    /\ UNCHANGED <<cliVars, restVars, nameVars, exit_code, console, inVars, outVars,
                   block_crc_map, poolVars, block_counter, last_processed_block_id,
                   faults, broke>>

\* mutant: the size is counted in pairs of records
SizeHalved(m) == Cardinality(DOMAIN m) \div 2

\* block_crc_map.size()
Size(m) == Cardinality(DOMAIN m)

\* if (block_crc_map.size() >= BLOCK_CRC_MAP_PROCESSING_SIZE) crc_saver();
\* the guard is released at the end of the loop body
CheckSize ==
    /\ pc = "check"
    /\ IF Size(block_crc_map) >= threshold
       THEN pc' = "saver" /\ ret' = "loop" /\ UNCHANGED block_crc_map_mutex
            /\ flush_from' = last_processed_block_id /\ flushed' = <<>>
       ELSE pc' = "loop" /\ block_crc_map_mutex' = "free" /\ UNCHANGED <<ret, flushVars>>
    /\ UNCHANGED <<dispatched, inserts, output_writers, last_fault>>
    /\ UNCHANGED <<cliVars, restVars, nameVars, exit_code, console, inVars, outVars,
                   block_crc_map, poolVars, block_counter, last_processed_block_id,
                   faults, broke>>

(***************************************************************************)
(* crc_saver, one pass of its while (true) per step.                       *)
(***************************************************************************)
\* block_crc_map.find(id) != block_crc_map.end()
Found(m, id) == id \in DOMAIN m

\* mutant: looks up the lowest key at or after the cursor, skipping a gap
SaverKeySkipGap(cursor, m) ==
    IF \E k \in DOMAIN m : k >= cursor
    THEN CHOOSE k \in DOMAIN m : k >= cursor /\ \A j \in DOMAIN m : j >= cursor => k <= j
    ELSE cursor

\* the key crc_saver looks up
SaverKey(cursor, m) == cursor

\* mutant: the cursor moves by two
AdvanceByTwo(cursor) == cursor + 2

\* last_processed_block_id++
Advance(cursor) == cursor + 1

\* output_file_stream.write(&block->second, 4): a stream in error state
\* writes nothing; a write that fails leaves the stream in error state
SaverWrite ==
    /\ pc = "saver"
    /\ Found(block_crc_map, SaverKey(last_processed_block_id, block_crc_map))
    /\ LET key == SaverKey(last_processed_block_id, block_crc_map)
       IN  \E io_error \in {FALSE} \cup {e \in {TRUE} : faults < MaxFaults /\ ~output_bad} :
              /\ faults' = IF io_error THEN faults + 1 ELSE faults
              /\ last_fault' = IF io_error THEN "write" ELSE last_fault
              /\ IF output_bad \/ io_error
                 THEN /\ output_bad' = TRUE
                      /\ UNCHANGED <<output_file_stream, written>>
                 ELSE /\ output_file_stream' = Append(output_file_stream, block_crc_map[key])
                      /\ written' = Append(written, key)
                      /\ UNCHANGED output_bad
    /\ flushed' = Append(flushed, SaverKey(last_processed_block_id, block_crc_map))
    /\ output_writers' = output_writers \cup {"main"}
    /\ last_processed_block_id' = Advance(last_processed_block_id)
    /\ UNCHANGED <<dispatched, inserts, flush_from>>
    /\ UNCHANGED <<cliVars, restVars, nameVars, pc, exit_code, console, inVars, output_open,
                   mapVars, poolVars, block_counter, ret, broke>>

\* else break; the caller's lock_guard is released when crc_saver returns
SaverBreak ==
    /\ pc = "saver"
    /\ ~Found(block_crc_map, SaverKey(last_processed_block_id, block_crc_map))
    /\ pc' = ret
    /\ ret' = "none"
    /\ block_crc_map_mutex' = "free"
    /\ flush_from' = 0
    /\ flushed' = <<>>
    /\ UNCHANGED <<dispatched, inserts, output_writers, last_fault>>
    /\ UNCHANGED <<cliVars, restVars, nameVars, exit_code, console, inVars, outVars,
                   block_crc_map, poolVars, block_counter, last_processed_block_id,
                   faults, broke>>

(***************************************************************************)
(* main: the drain loop and the end.                                       *)
(***************************************************************************)
\* mutant: > instead of !=
DrainConditionGreater(cursor, counter) == cursor > counter

\* while (last_processed_block_id != block_counter)
DrainCondition(cursor, counter) == cursor # counter

DrainTest ==
    /\ pc = "drain"
    /\ pc' = IF DrainCondition(last_processed_block_id, block_counter)
             THEN "drain_lock" ELSE "stop"
    /\ UNCHANGED <<cliVars, restVars, histVars, nameVars, exit_code, console, inVars, outVars, mapVars,
                   poolVars, block_counter, last_processed_block_id, ret,
                   faults, broke>>

\* thool::thread_pool::stop() returns when every task given to the pool has run
AllTasksDone == \A id \in DOMAIN tasks : tasks[id].st = "done"

\* tp.stop(); "done"; close both files; return EXIT_SUCCESS
Stop ==
    /\ pc = "stop"
    /\ AllTasksDone
    /\ stopped' = TRUE
    /\ Return(0, {"done"})
    /\ UNCHANGED <<cliVars, restVars, histVars, nameVars, inVars, outVars, mapVars, pool_size, tasks,
                   block_counter, last_processed_block_id, ret, faults, broke>>

\* part_000: tp.stop(); return EXIT_FAILURE
StopFatal ==
    /\ pc = "fatal"
    /\ AllTasksDone
    /\ stopped' = TRUE
    /\ Return(1, {})
    /\ UNCHANGED <<cliVars, restVars, histVars, nameVars, inVars, outVars, mapVars, pool_size, tasks,
                   block_counter, last_processed_block_id, ret, faults, broke>>

(***************************************************************************)
(* The task of block id, run by a worker thread of the pool.               *)
(***************************************************************************)
\* worker threads that hold a task
Busy == Cardinality({id \in DOMAIN tasks : tasks[id].st \in {"computed", "locked"}})

\* mutant: the checksum runs over the whole buffer
ProcessBytesCapacity(buffer, readed_size) == Crc32(buffer)

\* crc_hash.process_bytes(buffer_ptr->data(), readed_size); checksum()
ProcessBytes(buffer, readed_size) == Crc32(SubSeq(buffer, 1, readed_size))

\* part_000 clears and shrinks the buffer once the checksum is known;
\* signature.cpp keeps it until the task ends
BufferAfterCompute(v, buffer) == IF v = "part_000" THEN <<>> ELSE buffer

\* a free worker takes the task and computes the checksum
TaskCompute(id) ==
    /\ tasks[id].st = "queued"
    /\ Busy < pool_size
    /\ tasks' = [tasks EXCEPT ![id] =
                    [st |-> "computed",
                     buffer |-> BufferAfterCompute(variant, tasks[id].buffer),
                     readed_size |-> tasks[id].readed_size,
                     crc_value |-> ProcessBytes(tasks[id].buffer, tasks[id].readed_size)]]
    /\ UNCHANGED <<cliVars, restVars, histVars, nameVars, pc, exit_code, console, inVars, outVars, mapVars,
                   pool_size, stopped, block_counter, last_processed_block_id, ret,
                   faults, broke>>

\* mutant: the task does not wait for the guard
TaskLockNoWait(id) ==
    /\ tasks[id].st = "computed"
    /\ block_crc_map_mutex' = "task"
    /\ tasks' = [tasks EXCEPT ![id].st = "locked"]
    /\ UNCHANGED <<cliVars, restVars, histVars, nameVars, pc, exit_code, console, inVars, outVars,
                   block_crc_map, pool_size, stopped, block_counter,
                   last_processed_block_id, ret, faults, broke>>

\* std::lock_guard<std::mutex> lock(block_crc_map_mutex)
TaskLock(id) ==
    /\ tasks[id].st = "computed"
    /\ block_crc_map_mutex = "free"
    /\ block_crc_map_mutex' = "task"
    /\ tasks' = [tasks EXCEPT ![id].st = "locked"]
    /\ UNCHANGED <<cliVars, restVars, histVars, nameVars, pc, exit_code, console, inVars, outVars,
                   block_crc_map, pool_size, stopped, block_counter,
                   last_processed_block_id, ret, faults, broke>>

\* block_crc_map.insert({ key, value }): a present key is left as it is
MapInsert(m, key, value) ==
    IF key \in DOMAIN m THEN m
    ELSE [k \in DOMAIN m \cup {key} |-> IF k = key THEN value ELSE m[k]]

\* one more call of insert with this key
Counted(c, key) ==
    [k \in DOMAIN c \cup {key} |->
        IF k = key THEN (IF k \in DOMAIN c THEN c[k] + 1 ELSE 1) ELSE c[k]]

\* mutant: the lambda captures block_counter by reference
TaskKeyByReference(id) == block_counter

\* the key the task inserts under: its copy of block_counter
TaskKey(id) == id

\* insert under the guard, then the guard and the task end
TaskInsert(id) ==
    /\ tasks[id].st = "locked"
    /\ block_crc_map' = MapInsert(block_crc_map, TaskKey(id), tasks[id].crc_value)
    /\ inserts' = Counted(inserts, TaskKey(id))
    /\ UNCHANGED <<dispatched, flushVars, output_writers, last_fault>>
    /\ console' = IF variant = "signature" /\ TaskKey(id) \in DOMAIN block_crc_map
                  THEN console \cup {"insert_error"} ELSE console
    /\ block_crc_map_mutex' = "free"
    /\ tasks' = [tasks EXCEPT ![id].st = "done", ![id].buffer = <<>>]
    /\ UNCHANGED <<cliVars, restVars, nameVars, pc, exit_code, inVars, outVars, pool_size,
                   stopped, block_counter, last_processed_block_id, ret,
                   faults, broke>>

\* part_000: insert throws std::bad_alloc and leaves the map as it was; the
\* guard is released by the unwinding, the task sleeps 10 ms and takes the
\* guard again.  (In signature.cpp the exception would leave the lambda into
\* thool, which is outside the repository.)
InsertFail(id) ==
    /\ variant = "part_000"
    /\ tasks[id].st = "locked"
    /\ faults < MaxFaults
    /\ faults' = faults + 1
    /\ last_fault' = "insert"
    /\ block_crc_map_mutex' = "free"
    /\ tasks' = [tasks EXCEPT ![id].st = "computed"]
    /\ UNCHANGED <<cliVars, restVars, doneVars, nameVars, pc, exit_code, console, inVars,
                   outVars, block_crc_map, pool_size, stopped, block_counter,
                   last_processed_block_id, ret, broke>>

Main ==
    \/ ParseError \/ ParseHelp \/ ParseRun \/ SameFileCheck
    \/ OpenInput \/ OpenOutput
    \/ ReadBlock \/ AllocFail \/ LengthError \/ LoopExit
    \/ Lock \/ CheckSize \/ SaverWrite \/ SaverBreak
    \/ DrainTest \/ Stop \/ StopFatal

Worker(id) ==
    /\ id \in DOMAIN tasks
    /\ (TaskCompute(id) \/ TaskLock(id) \/ TaskInsert(id) \/ InsertFail(id))

Next == Main \/ \E id \in 0..(MaxBlocks - 1) : Worker(id)

Spec == Init /\ [][Next]_vars

(***************************************************************************)
(* Scheduling.  main runs on its own thread and the pool runs every task   *)
(* it was given.  A task that waits for block_crc_map_mutex gets it: main  *)
(* takes the guard once per pass of its loops and the drain loop sleeps    *)
(* 10 ms with the guard free between two passes, so the guard is free      *)
(* again and again while a task waits (strong fairness of TaskLock).  The  *)
(* tasks are finitely many and each computes, locks and inserts once, so   *)
(* fairness of "some task" is fairness of every task.                      *)
(***************************************************************************)
Fairness ==
    /\ WF_vars(Main)
    /\ WF_vars(\E id \in DOMAIN tasks : TaskCompute(id))
    /\ SF_vars(\E id \in DOMAIN tasks : TaskLock(id))
    /\ WF_vars(\E id \in DOMAIN tasks : TaskInsert(id))

FairSpec == Spec /\ Fairness

(***************************************************************************)
(* block_size on its own: validate makes a block_size and calls set on it; *)
(* set is public and may be called again on the same object.               *)
(***************************************************************************)
pipeVars == <<variant, threshold, args, pc, exit_code, console, block_size_value,
              input_file_name, output_file_name, input_open, output_open, input,
              pos, input_eof, input_fail, block_counter, last_processed_block_id,
              block_crc_map, block_crc_map_mutex, output_file_stream, output_bad,
              written, pool_size, tasks, stopped, ret, faults, broke,
              histVars, output_file_mutex>>

\* block_size bs;
SetNew ==
    /\ set_call.calls > 0
    /\ validate_bs' = block_size_default
    /\ set_call' = NoCall
    /\ set_result' = "none"
    /\ UNCHANGED pipeVars

\* bs.set(number, suffix); a fault ends the process
SetCall ==
    /\ set_result # "fault"
    /\ set_call.calls < MaxCalls
    /\ \E number \in SetNumbers, suffix \in SetSuffixes :
          \E out \in block_size_set(validate_bs, number, suffix) :
             /\ validate_bs' = out.obj
             /\ set_result' = out.result
             /\ set_call' = [calls |-> set_call.calls + 1, number |-> number,
                             suffix |-> suffix, before |-> validate_bs]
    /\ UNCHANGED pipeVars

SetNext == SetNew \/ SetCall

\* the command line plays no part in set
SetInit ==
    /\ Init
    /\ threshold = BLOCK_CRC_MAP_PROCESSING_SIZE
    /\ args = [help |-> FALSE, input |-> "a", output |-> "b", bad |-> FALSE]

SetSpec == SetInit /\ [][SetNext]_vars

(***************************************************************************)
(* src/unnamed/part_001: the earliest revision.  main cuts the input into  *)
(* blocks of --block bytes (an int, 32 .. 512M) and gives each block to a  *)
(* task that writes it to the output under output_file_mutex.  There is no *)
(* checksum, no result store and no block counter; a task is named by its  *)
(* place in the order of add_task.                                         *)
(***************************************************************************)
MINIMUM_BLOCK_SIZE == 32
MAXIMUM_BLOCK_SIZE == 1024 * 1024 * 512

\* --block values: the two ends of the range, their neighbours, and one more
BlockSizes001 ==
    {MINIMUM_BLOCK_SIZE - 1, MINIMUM_BLOCK_SIZE, MINIMUM_BLOCK_SIZE + 1,
     MAXIMUM_BLOCK_SIZE + 1}

\* input files: the bytes 1, 2, 3, ... up to two blocks and a byte
Bytes(n) == [i \in 1..n |-> i % 256]
Inputs001 ==
    {Bytes(n) : n \in {0, 1, MINIMUM_BLOCK_SIZE, MINIMUM_BLOCK_SIZE + 1,
                       2 * MINIMUM_BLOCK_SIZE, 2 * MINIMUM_BLOCK_SIZE + 1}}

Init001 ==
    /\ variant = "part_001"
    /\ threshold = BLOCK_CRC_MAP_PROCESSING_SIZE
    /\ args \in Args
    /\ Start

\* what part_001 does not have
crcVars == <<block_counter, last_processed_block_id, mapVars, written, ret, broke,
             dispatched, inserts, flushVars, setVars>>

\* store, notify, then the help check: the order of signature.cpp
ParseOutcome001(a) ==
    IF StoreThrows(a) \/ NotifyThrows(a) THEN "error"
    ELSE IF HelpAsked(a) THEN "help" ELSE "run"

\* catch (std::exception & e): e.what(), EXIT_FAILURE
ParseError001 ==
    /\ pc = "parse"
    /\ ParseOutcome001(args) = "error"
    /\ Return(1, {"error"})
    /\ UNCHANGED <<cliVars, crcVars, nameVars, inVars, output_open, output_file_stream,
                   output_bad, poolVars, faults, last_fault, output_writers,
                   output_file_mutex>>

ParseHelp001 ==
    /\ pc = "parse"
    /\ ParseOutcome001(args) = "help"
    /\ Return(0, {"usage"})
    /\ UNCHANGED <<cliVars, crcVars, nameVars, inVars, output_open, output_file_stream,
                   output_bad, poolVars, faults, last_fault, output_writers,
                   output_file_mutex>>

\* notify stores the option values; --block is any int
ParseRun001 ==
    /\ pc = "parse"
    /\ ParseOutcome001(args) = "run"
    /\ \E bs \in BlockSizes001 : block_size_value' = bs
    /\ input_file_name' = args.input
    /\ output_file_name' = args.output
    /\ pc' = "size_check"
    /\ UNCHANGED <<cliVars, crcVars, exit_code, console, inVars, output_open,
                   output_file_stream, output_bad, poolVars, faults, last_fault,
                   output_writers, output_file_mutex>>

\* (block_size < MINIMUM_BLOCK_SIZE) || (block_size > MAXIMUM_BLOCK_SIZE)
InvalidBlockSize(bs) == bs < MINIMUM_BLOCK_SIZE \/ bs > MAXIMUM_BLOCK_SIZE

CheckBlockSize001 ==
    /\ pc = "size_check"
    /\ IF InvalidBlockSize(block_size_value)
       THEN Return(1, {"invalid_block_size"})
       ELSE pc' = "copy_open_input" /\ UNCHANGED <<exit_code, console>>
    /\ UNCHANGED <<cliVars, crcVars, nameVars, inVars, output_open, output_file_stream,
                   output_bad, poolVars, faults, last_fault, output_writers,
                   output_file_mutex>>

\* std::ifstream input_file(input_file_name, std::ios::binary)
OpenInput001 ==
    /\ pc = "copy_open_input"
    /\ \E ok \in BOOLEAN :
          IF ok
          THEN /\ input_open' = TRUE
               /\ \E content \in Inputs001 : input' = content
               /\ pc' = "copy_open_output"
               /\ UNCHANGED <<exit_code, console>>
          ELSE /\ Return(1, {"cant_open_input"})
               /\ UNCHANGED <<input_open, input>>
    /\ UNCHANGED <<cliVars, crcVars, nameVars, pos, input_eof, input_fail, output_open,
                   output_file_stream, output_bad, poolVars, faults, last_fault,
                   output_writers, output_file_mutex>>

\* std::ofstream output_file_stream(output_file_name, binary | trunc); the
\* mutex; thread_pool::instance()
OpenOutput001 ==
    /\ pc = "copy_open_output"
    /\ \E ok \in BOOLEAN :
          IF ok
          THEN /\ output_open' = TRUE
               /\ \E n \in PoolSizes : pool_size' = n
               /\ pc' = "copy_loop"
               /\ UNCHANGED <<exit_code, console>>
          ELSE /\ Return(1, {"cant_open_output"})
               /\ UNCHANGED <<output_open, pool_size>>
    /\ UNCHANGED <<cliVars, crcVars, nameVars, inVars, output_file_stream, output_bad,
                   tasks, stopped, faults, last_fault, output_writers,
                   output_file_mutex>>

\* the lambda handed to tp.add_task: its captures
NewTask001(buffer, count) == [st |-> "queued", buffer |-> buffer, readed_size |-> count]

\* tasks handed to the pool so far
Added == Cardinality(DOMAIN tasks)

\* One pass of the loop body: allocate, read, gcount, add_task.
ReadBlock001 ==
    /\ pc = "copy_loop"
    /\ ~input_eof
    /\ Added < MaxBlocks
    /\ \E io_error \in {FALSE} \cup {e \in {TRUE} : faults < MaxFaults /\ ~input_fail} :
          LET r == ReadResult(input, pos, block_size_value, input_fail, io_error)
          IN  /\ faults' = IF io_error THEN faults + 1 ELSE faults
              /\ last_fault' = IF io_error THEN "read" ELSE last_fault
              /\ pos' = r.pos
              /\ input_eof' = r.eof
              /\ input_fail' = r.fail
              /\ tasks' = AddTask(tasks, Added,
                                  NewTask001(Buffer(r.data, block_size_value), r.count))
    /\ UNCHANGED <<cliVars, crcVars, nameVars, pc, exit_code, console, input_open, input,
                   output_open, output_file_stream, output_bad, pool_size, stopped,
                   output_writers, output_file_mutex>>

\* make_shared throws std::bad_alloc, which nothing catches: std::terminate
Terminate001 ==
    /\ pc = "copy_loop"
    /\ ~input_eof
    /\ faults < MaxFaults
    /\ faults' = faults + 1
    /\ last_fault' = "alloc"
    /\ Return(134, {"terminate"})
    /\ UNCHANGED <<cliVars, crcVars, nameVars, inVars, output_open, output_file_stream,
                   output_bad, poolVars, output_writers, output_file_mutex>>

\* input_file.eof() ends the loop
LoopExit001 ==
    /\ pc = "copy_loop"
    /\ input_eof
    /\ pc' = "copy_stop"
    /\ UNCHANGED <<cliVars, crcVars, nameVars, exit_code, console, inVars, output_open,
                   output_file_stream, output_bad, poolVars, faults, last_fault,
                   output_writers, output_file_mutex>>

\* tp.stop(); "done"; close both files; return EXIT_SUCCESS
Stop001 ==
    /\ pc = "copy_stop"
    /\ AllTasksDone
    /\ stopped' = TRUE
    /\ Return(0, {"done"})
    /\ UNCHANGED <<cliVars, crcVars, nameVars, inVars, output_open, output_file_stream,
                   output_bad, pool_size, tasks, faults, last_fault, output_writers,
                   output_file_mutex>>

\* worker threads that hold a task
Busy001 == Cardinality({id \in DOMAIN tasks : tasks[id].st \in {"running", "locked"}})

\* a free worker takes the task
TaskRun001(id) ==
    /\ pc # "exit"
    /\ tasks[id].st = "queued"
    /\ Busy001 < pool_size
    /\ tasks' = [tasks EXCEPT ![id].st = "running"]
    /\ UNCHANGED <<cliVars, crcVars, nameVars, pc, exit_code, console, inVars, output_open,
                   output_file_stream, output_bad, pool_size, stopped, faults,
                   last_fault, output_writers, output_file_mutex>>

\* std::lock_guard<std::mutex> lock(output_file_mutex)
TaskLock001(id) ==
    /\ pc # "exit"
    /\ tasks[id].st = "running"
    /\ output_file_mutex = "free"
    /\ output_file_mutex' = "task"
    /\ tasks' = [tasks EXCEPT ![id].st = "locked"]
    /\ UNCHANGED <<cliVars, crcVars, nameVars, pc, exit_code, console, inVars, output_open,
                   output_file_stream, output_bad, pool_size, stopped, faults,
                   last_fault, output_writers>>

\* output_file_stream.write(buffer_ptr->data(), readed_size); flush(); the
\* guard and the task end
TaskWrite001(id) ==
    /\ pc # "exit"
    /\ tasks[id].st = "locked"
    /\ \E io_error \in {FALSE} \cup {e \in {TRUE} : faults < MaxFaults /\ ~output_bad} :
          /\ faults' = IF io_error THEN faults + 1 ELSE faults
          /\ last_fault' = IF io_error THEN "write" ELSE last_fault
          /\ IF output_bad \/ io_error
             THEN output_bad' = TRUE /\ UNCHANGED output_file_stream
             ELSE /\ output_file_stream' =
                        output_file_stream \o SubSeq(tasks[id].buffer, 1, tasks[id].readed_size)
                  /\ UNCHANGED output_bad
    /\ output_writers' = output_writers \cup {"task"}
    /\ output_file_mutex' = "free"
    /\ tasks' = [tasks EXCEPT ![id].st = "done", ![id].buffer = <<>>]
    /\ UNCHANGED <<cliVars, crcVars, nameVars, pc, exit_code, console, inVars, output_open,
                   pool_size, stopped>>

Main001 ==
    \/ ParseError001 \/ ParseHelp001 \/ ParseRun001 \/ CheckBlockSize001
    \/ OpenInput001 \/ OpenOutput001
    \/ ReadBlock001 \/ Terminate001 \/ LoopExit001 \/ Stop001

Worker001(id) ==
    /\ id \in DOMAIN tasks
    /\ (TaskRun001(id) \/ TaskLock001(id) \/ TaskWrite001(id))

Next001 == Main001 \/ \E id \in 0..(MaxBlocks - 1) : Worker001(id)

Spec001 == Init001 /\ [][Next001]_vars

(***************************************************************************)
(* Properties.                                                             *)
(***************************************************************************)
\* the pipeline ran to its end: "done" was printed and main returned
PipelineDone == pc = "exit" /\ "done" \in console

\* the run met no failure that cuts the output short: no read or write
\* error and no break out of the producer loop (a std::bad_alloc that
\* part_000 retried is not one)
Undisturbed == ~input_fail /\ ~output_bad /\ ~broke

Ceil(n, d) == (n + d - 1) \div d

\* bytes of the k-th block (k = 0, 1, ...) of a file cut into blocks of bs
BlockBytes(content, k, bs) == SubSeq(content, k * bs + 1, Min((k + 1) * bs, Len(content)))

\* The loop never stops at MaxBlocks in a run whose reads do not fail.
CapNotReached ==
    (pc = "loop" /\ ~input_eof /\ ~input_fail) => block_counter < MaxBlocks

\* C1: the k-th record written to the output is the record of block k: the
\* ids of the records written are 0, 1, 2, ... in this order, and each
\* record is the checksum its block's task computed.
C1_OrderedEmission ==
    /\ Len(written) = Len(output_file_stream)
    /\ \A k \in 1..Len(written) :
          /\ written[k] = k - 1
          /\ (k - 1) \in DOMAIN tasks
          /\ output_file_stream[k] = tasks[k - 1].crc_value

\* a forced flush in the producer loop wrote record 0 and stopped at the gap
\* left by block 1, whose task finishes after the task of block 2
C1_Witness ==
    /\ pc = "saver"
    /\ ret = "loop"
    /\ written = <<0>>
    /\ 2 \in DOMAIN block_crc_map
    /\ 1 \notin DOMAIN block_crc_map

\* C2: when the pipeline finishes, the output holds ceil(S / B) records.
C2_RecordCount ==
    (PipelineDone /\ Undisturbed)
        => Len(output_file_stream) = Ceil(Len(input), block_size_value)

\* what one thread that reads, computes and writes block after block leaves
\* in the output
RECURSIVE SequentialOutput(_, _, _)
SequentialOutput(content, p, bs) ==
    LET r == ReadResult(content, p, bs, FALSE, FALSE)
        record == Crc32(r.data)
    IN  IF r.eof THEN <<record>>
        ELSE <<record>> \o SequentialOutput(content, r.pos, bs)

\* C3: the output of a finished run is a function of the input and the
\* block size alone: whatever the revision, the pool size, the high-water
\* mark and the schedule, it is the output of the sequential run.
C3_Determinism ==
    (PipelineDone /\ Undisturbed)
        => output_file_stream = SequentialOutput(input, 0, block_size_value)

\* a finished run of three blocks on a pool of two threads
C3_Witness ==
    /\ PipelineDone
    /\ Undisturbed
    /\ pool_size = 2
    /\ Len(output_file_stream) = 3

\* C4: once the input is exhausted the run ends with the cursor at the
\* number of blocks dispatched; the pool is stopped only with the cursor
\* there; and the guard, once held, is released.
C4_DrainTerminates ==
    /\ input_eof ~> (pc = "exit" /\ stopped /\ last_processed_block_id = block_counter)
    /\ []((input_eof /\ stopped) => last_processed_block_id = block_counter)
    /\ (block_crc_map_mutex # "free") ~> (block_crc_map_mutex = "free")

\* the drain loop is about to take the guard while a task is still to run
C4_Witness ==
    /\ pc = "drain_lock"
    /\ input_eof
    /\ \E id \in DOMAIN tasks : tasks[id].st = "queued"

\* C5: after a read failure that is not end-of-stream the producer
\* dispatches no further block, and the process ends with a non-zero code.
C5_ReadFailureFatal ==
    [][input_fail => (block_counter' = block_counter /\ (pc' = "exit" => exit_code' # 0))]_vars

\* C6: after a failed write the cursor is not past the unwritten record and
\* the process ends with a non-zero code.
C6_WriteFailureFatal ==
    output_bad => /\ last_processed_block_id <= Len(output_file_stream)
                  /\ (pc = "exit" => exit_code # 0)

\* C7: a run of the pipeline that returns 0 has written the checksum of
\* every block of the input.
C7_NoPartialSuccess ==
    (PipelineDone /\ exit_code = 0)
        => /\ Len(output_file_stream) >= Ceil(Len(input), block_size_value)
           /\ \A k \in 1..Ceil(Len(input), block_size_value) :
                 output_file_stream[k] = Crc32(BlockBytes(input, k - 1, block_size_value))

\* C8: a task's checksum is the checksum of the bytes read for its block,
\* and for an input that is not a multiple of the block size the records
\* written are the checksums of the full blocks, then of the S mod B bytes
\* that are left.
C8_ChecksumOverBytesRead ==
    /\ \A id \in DOMAIN tasks :
          (~input_fail /\ tasks[id].st # "queued")
              => /\ tasks[id].readed_size = Len(BlockBytes(input, id, block_size_value))
                 /\ tasks[id].crc_value = Crc32(BlockBytes(input, id, block_size_value))
    /\ (PipelineDone /\ Undisturbed /\ Len(input) % block_size_value # 0)
          => LET S == Len(input)
                 B == block_size_value
             IN  /\ Len(output_file_stream) = (S \div B) + 1
                 /\ \A k \in 1..(S \div B) :
                       output_file_stream[k] = Crc32(SubSeq(input, (k - 1) * B + 1, k * B))
                 /\ output_file_stream[(S \div B) + 1]
                       = Crc32(SubSeq(input, S - (S % B) + 1, S))

\* a finished run on 3 bytes in blocks of 2: a full block and a short one
C8_Witness ==
    /\ PipelineDone
    /\ Undisturbed
    /\ Len(input) = 3
    /\ block_size_value = 2
    /\ Len(output_file_stream) = 2

\* C9: with --input and --output naming the same path no file is opened,
\* no task is submitted and no record is written, and (unless --help or a
\* parse error ends the run first) the conflict is reported with exit code 1.
C9_SameFileNoIO ==
    (args.input = args.output /\ args.input # "")
        => /\ ~input_open
           /\ ~output_open
           /\ tasks = <<>>
           /\ output_file_stream = <<>>
           /\ (pc = "exit" /\ ~args.help /\ ~args.bad)
                 => (exit_code = 1 /\ "same_files" \in console)

\* the same-file check has ended the run
C9_Witness ==
    /\ pc = "exit"
    /\ "same_files" \in console
    /\ input_file_name = output_file_name

\* C10: with --help among well-formed arguments, the required options given
\* or not, the process prints usage, returns 0 and opens no file.
C10_HelpWins ==
    (args.help /\ ~args.bad /\ pc = "exit")
        => (exit_code = 0 /\ "usage" \in console /\ ~input_open /\ ~output_open)

\* the product number * multiplier of the claim, in full
C11_Product(number, suffix) ==
    BigMul(number, NatBytes(IF suffix = NoSuffix THEN 1
                            ELSE IF suffix = CharK THEN 1024
                            ELSE IF suffix = CharM THEN 1024 * 1024
                            ELSE 1024 * 1024 * 1024))

C11_Acceptable(number, suffix) ==
    /\ suffix \in {NoSuffix, CharK, CharM, CharG}
    /\ ~BigLess(Uint64Max, C11_Product(number, suffix))
    /\ ~BigLess(C11_Product(number, suffix), NatBytes(1024))

\* C11: set(number, suffix) returns true, and get() then returns
\* number * multiplier, exactly when the suffix is none, K, M or G and the
\* product fits in 64 bits and is at least 1024; for every other input, 0
\* among them, it returns false without fault and leaves the object as it was.
C11_BlockSizeSet ==
    (set_call.calls > 0)
        => IF C11_Acceptable(set_call.number, set_call.suffix)
           THEN /\ set_result = "true"
                /\ block_size_get(validate_bs) = C11_Product(set_call.number, set_call.suffix)
           ELSE /\ set_result = "false"
                /\ validate_bs = set_call.before

\* C12: the store holds no record below the flush cursor: a flush removes
\* every record it writes, so the store's size counts the records computed
\* and not yet flushed.
C12_FlushRemoves ==
    /\ \A k \in DOMAIN block_crc_map : k >= last_processed_block_id
    /\ Cardinality(DOMAIN block_crc_map)
          = Cardinality({k \in DOMAIN block_crc_map : k >= last_processed_block_id})

\* the smallest index >= c that the store does not hold
FirstGap(m, c) ==
    CHOOSE g \in c..(c + Cardinality(DOMAIN m)) :
        g \notin DOMAIN m /\ \A k \in c..(g - 1) : k \in DOMAIN m

\* the indices from, from + 1, ..., to - 1 in order
Indices(from, to) == [i \in 1..(to - from) |-> from + i - 1]

\* C13: a flush from cursor c hands to the output exactly the records
\* c, c + 1, ..., g - 1, in this order, where g is the smallest index >= c
\* absent from the store, and leaves the cursor at g: nothing past the first
\* gap, and nothing at all (cursor unchanged) when c itself is absent.  While
\* the flush runs the store does not change, and what it has handed over so
\* far are the records from c up to the cursor.
C13_ContiguousFlush ==
    /\ [](pc = "saver" =>
            /\ flushed = Indices(flush_from, last_processed_block_id)
            /\ last_processed_block_id <= FirstGap(block_crc_map, flush_from))
    /\ [][(pc = "saver" /\ pc' # "saver") =>
            /\ last_processed_block_id = FirstGap(block_crc_map, flush_from)
            /\ flushed = Indices(flush_from, FirstGap(block_crc_map, flush_from))
            /\ (~output_bad => /\ Len(written) >= Len(flushed)
                               /\ SubSeq(written, Len(written) - Len(flushed) + 1, Len(written))
                                     = flushed)
            /\ last_processed_block_id' = last_processed_block_id]_vars

\* a flush from 0 has written record 0 and is about to stop at the gap left
\* by block 1, with record 2 in the store
C13_Witness ==
    /\ pc = "saver"
    /\ flush_from = 0
    /\ flushed = <<0>>
    /\ DOMAIN block_crc_map = {0, 2}

\* C14: the cursor starts at 0; a step leaves it unchanged or adds exactly 1
\* to it, and adds 1 only when the step is the one in which crc_saver found
\* the record of the cursor's value and wrote it (on a good stream the record
\* is appended to the output); the cursor is never past the number of blocks
\* dispatched.
C14_CursorSteps ==
    /\ last_processed_block_id = 0
    /\ [](last_processed_block_id <= block_counter)
    /\ [][\/ last_processed_block_id' = last_processed_block_id
          \/ /\ last_processed_block_id' = last_processed_block_id + 1
             /\ pc = "saver"
             /\ last_processed_block_id \in DOMAIN block_crc_map
             /\ flushed' = Append(flushed, last_processed_block_id)
             /\ "main" \in output_writers'
             /\ ~output_bad' =>
                   /\ written' = Append(written, last_processed_block_id)
                   /\ output_file_stream'
                         = Append(output_file_stream, block_crc_map[last_processed_block_id])]_vars

\* the cursor has caught up with the producer in the middle of the input
C14_Witness ==
    /\ pc = "loop"
    /\ ~input_eof
    /\ last_processed_block_id = 2
    /\ block_counter = 2

\* the producer loop has not ended: the input is not exhausted and main is
\* before the loop or in it (the loop body's flush included)
ProducerRunning ==
    /\ ~input_eof
    /\ \/ pc \in {"parse", "same_check", "open_input", "open_output", "loop", "lock", "check"}
       \/ pc = "saver" /\ ret = "loop"

\* the task of block id has inserted its record and ended
TaskFinished(id) == id \in DOMAIN tasks /\ tasks[id].st = "done"

\* C15, as stated: once a block has been dispatched, "cursor == number of
\* blocks produced" holds in no state where the producer loop can still
\* dispatch a block or a submitted task has not finished (read here of the
\* runs that meet no failure, in the states with bytes of the input unread).
C15_TerminalOnlyAtEnd ==
    (/\ block_counter > 0
     /\ last_processed_block_id = block_counter
     /\ Undisturbed
     /\ pos < Len(input))
        => /\ ~ProducerRunning
           /\ \A id \in 0..(block_counter - 1) : TaskFinished(id)

\* C15, amended: "cursor == number of blocks produced" holds in no state
\* where a submitted task has not finished; and when the drain loop finds it
\* true (main goes on to tp.stop()), the producer loop has ended and no block
\* is dispatched from then on.
C15_TerminalInDrain ==
    /\ [](last_processed_block_id = block_counter
             => \A id \in 0..(block_counter - 1) : TaskFinished(id))
    /\ [](pc = "stop"
             => /\ last_processed_block_id = block_counter
                /\ ~ProducerRunning
                /\ DOMAIN tasks = 0..(block_counter - 1))
    /\ [][(pc \in {"drain", "drain_lock", "stop", "exit"})
              => (block_counter' = block_counter /\ dispatched' = dispatched)]_vars

\* the drain loop has found the condition true after three blocks
C15_Witness ==
    /\ pc = "stop"
    /\ block_counter = 3
    /\ last_processed_block_id = 3

\* C16: the indices the tasks captured are 0, 1, 2, ... in the order of
\* dispatch, one task for each; a task inserts once, under its own index, so
\* the store has had one insert for each of its keys and insert never met a
\* key that was there.
C16_UniqueKeys ==
    /\ dispatched = Indices(0, block_counter)
    /\ DOMAIN tasks = 0..(block_counter - 1)
    /\ DOMAIN inserts = DOMAIN block_crc_map
    /\ \A k \in DOMAIN inserts :
          /\ inserts[k] = 1
          /\ k \in DOMAIN tasks
          /\ tasks[k].st = "done"
    /\ \A id \in DOMAIN tasks : tasks[id].st = "done" => id \in DOMAIN inserts
    /\ "insert_error" \notin console

\* part_000: the records of blocks 1 and 2 are in the store and the task of
\* block 0 is back to taking the guard after an insert that failed
C16_Witness ==
    /\ variant = "part_000"
    /\ block_counter = 3
    /\ DOMAIN inserts = {1, 2}
    /\ tasks[0].st = "computed"
    /\ last_fault = "insert"

\* C17: a step in which the allocation of the buffer fails leaves main in
\* the producer loop (pc stays "loop", where the same read comes next), with
\* no task submitted, no index consumed and no byte of the input skipped;
\* and a run that met no other failure ends with the output of a run without
\* allocation failures.
C17_AllocRetry ==
    /\ [][(faults' = faults + 1 /\ last_fault' = "alloc")
             => /\ pc = "loop"
                /\ pc' = "loop"
                /\ exit_code' = exit_code
                /\ block_counter' = block_counter
                /\ dispatched' = dispatched
                /\ tasks' = tasks
                /\ pos' = pos]_vars
    /\ []((pc = "exit" /\ output_open /\ block_size_value <= VectorMaxSize
                /\ ~input_fail /\ ~output_bad)
             => /\ exit_code = 0
                /\ output_file_stream = SequentialOutput(input, 0, block_size_value))

\* records computed and not yet flushed
Unflushed(m, cursor) == Cardinality({k \in DOMAIN m : k >= cursor})

\* C18: when the size test that follows a dispatch finds more records
\* computed and not flushed than the high-water mark, crc_saver runs on main
\* under the guard, and no block is read or dispatched until it has
\* returned.
C18_Backpressure ==
    /\ [][(/\ pc = "check"
           /\ pc' # "check"
           /\ Unflushed(block_crc_map, last_processed_block_id) > threshold)
             => /\ pc' = "saver"
                /\ ret' = "loop"
                /\ flush_from' = last_processed_block_id
                /\ block_crc_map_mutex' = "main"]_vars
    /\ [][(pc = "saver") => (block_counter' = block_counter /\ pos' = pos)]_vars
    /\ [][(pc = "saver" /\ pc' = "loop")
             => last_processed_block_id \notin DOMAIN block_crc_map]_vars

\* the program's own mark: a scaled mark m stands for 100 as m blocks stand
\* for 100 blocks; here the flush of the loop body starts, two records over
\* a mark of 1 waiting
C18_Witness ==
    /\ pc = "saver"
    /\ ret = "loop"
    /\ flushed = <<>>
    /\ threshold = 1
    /\ Unflushed(block_crc_map, last_processed_block_id) = 3

(***************************************************************************)
(* C19.  Every access to the result store is made under its one guard:     *)
(* main is at the size test or inside crc_saver only while it holds        *)
(* block_crc_map_mutex, a task is at its insert only while it holds it, at *)
(* no time are two contexts inside a store access, every change of the     *)
(* store and every cursor advance is made by the holder, and no insert     *)
(* happens between the start and the end of one crc_saver run.             *)
(***************************************************************************)
\* the tasks that are inside their guarded insert
InStore == {id \in DOMAIN tasks : tasks[id].st = "locked"}

\* main is at the size test or inside crc_saver
MainInStore == pc \in {"check", "saver"}

C19_MutualExclusion ==
    /\ [](MainInStore => block_crc_map_mutex = "main" /\ InStore = {})
    /\ [](InStore # {} => block_crc_map_mutex = "task" /\ Cardinality(InStore) = 1)
    /\ [][(block_crc_map' # block_crc_map \/ inserts' # inserts)
             => block_crc_map_mutex = "task" /\ InStore # {}]_vars
    /\ [][(last_processed_block_id' # last_processed_block_id)
             => block_crc_map_mutex = "main" /\ pc = "saver"]_vars
    /\ [][(pc = "saver") => (block_crc_map' = block_crc_map /\ inserts' = inserts)]_vars

\* a task has its checksum and waits for the guard in the middle of a
\* crc_saver run that has written a record
C19_Witness ==
    /\ pc = "saver"
    /\ flushed # <<>>
    /\ \E id \in DOMAIN tasks : tasks[id].st = "computed"

(***************************************************************************)
(* C20.  Only main, inside crc_saver, writes to the output stream: no      *)
(* worker task ever writes to it.                                          *)
(***************************************************************************)
C20_SingleWriter == "task" \notin output_writers

(***************************************************************************)
(* C21.  A task gives up its block's buffer once the checksum is known and *)
(* before the insert: a block whose task waits for the guard or is at its  *)
(* insert, or whose record is in the store, holds no buffer.               *)
(***************************************************************************)
\* the task of block id has its checksum and has not inserted it yet
WaitsToInsert(id) == tasks[id].st \in {"computed", "locked"}

C21_BufferReleased ==
    \A id \in DOMAIN tasks :
        (WaitsToInsert(id) \/ id \in DOMAIN block_crc_map) => tasks[id].buffer = <<>>

(***************************************************************************)
(* C22.  When main returns after it has handed a task to the pool, by the  *)
(* normal end or by the fatal path, tp.stop() has returned and every task  *)
(* handed over has finished; already when main reaches tp.stop() after the *)
(* drain loop no task is left, and after the return no task takes a step   *)
(* on the store, its guard or the counters.                                *)
(***************************************************************************)
\* main has returned EXIT_SUCCESS or EXIT_FAILURE
MainReturned == pc = "exit" /\ exit_code \in {0, 1}

C22_PoolStoppedBeforeReturn ==
    /\ []((MainReturned /\ DOMAIN tasks # {}) => (stopped /\ AllTasksDone))
    /\ [](pc = "stop" => AllTasksDone)
    /\ [][MainReturned => UNCHANGED <<tasks, mapVars, inserts, block_counter,
                                      last_processed_block_id>>]_vars

\* signature.cpp left the producer loop by break with two tasks handed over,
\* drained, stopped the pool and returned
C22_Witness ==
    /\ MainReturned
    /\ broke
    /\ stopped
    /\ Cardinality(DOMAIN tasks) = 2
    /\ DOMAIN block_crc_map = {0, 1}

=============================================================================
